---- MODULE Spec2Model ----
(***************************************************************************)
(* Model of the HTTP rate-limiting module: RequestRateTracker (a fixed     *)
(* window request counter shared by the server's worker threads) and       *)
(* getClientId (the derivation of a 32-bit client id from an address).     *)
(***************************************************************************)
EXTENDS Integers, Sequences, FiniteSets, TLC

(***************************************************************************)
(* Bounds of the model.                                                    *)
(***************************************************************************)
\* The clock is advanced up to this many ticks.
MaxClock == 6
\* Clock ticks per second: the clock is finer than the seconds the tracker
\* counts in (duration_cast truncates).
TicksPerSec == 2
\* At most this many addRequest calls that are not bypassed are made.
MaxCalls == 3
\* Under fair scheduling the clock is advanced up to this many ticks.
MaxFairClock == 2
\* Under fair scheduling at most this many calls that are not bypassed are made.
MaxFairCalls == 3
\* The tests' ManualClock is advanced up to this many seconds.
MaxFixtureSecond == 12

Threads == {"t1", "t2"}

(***************************************************************************)
(* HTTPClientID is a uint32_t.  It is kept as its two 16-bit halves        *)
(* <<high, low>>, so that ids above 2^31 are representable.                *)
(***************************************************************************)
NoId == <<0, 0>>
\* 127.0.0.1 and 127.0.0.2
IdA == <<32512, 1>>
IdB == <<32512, 2>>
ClientIds == {NoId, IdA, IdB}

\* std::numeric_limits<long>::lowest() and max(), for a 32-bit long
LongLowest == -2147483647 - 1
LongMax == 2147483647

\* Mutant: the window start is initialised to 0
ZeroWindowStart == 0

\* currentWindowStart(std::numeric_limits<...>::lowest()): below every second
InitialWindowStart == LongLowest

\* The rate limits a tracker is constructed with when the configuration is valid
ValidConfigs == {[num |-> n, period |-> p] : n \in {1, 2}, p \in {2, 3}}
\* The values config().getInt can deliver: nothing validates them
AnyConfigs == {[num |-> n, period |-> p] : n \in {0, 1}, p \in {-2, 0, 2}}

VARIABLES
    rateLimit,          \* RequestRate {num, period}
    appStartTime,       \* clock reading taken by the constructor
    currentWindowStart, \* start of the current window, seconds since start
    requestCounts,      \* unordered_map client -> count
    clients,            \* unordered_set of clients to track
    mutex,              \* requestCountsMutex: its holder, or "free"
    clock,              \* the time source, in ticks
    pc,                 \* per thread: position in the call it is making
    client,             \* per thread: the argument of the call
    secSinceStart,      \* per thread: addRequest's reading of the clock, in seconds
    ret,                \* per thread: the value the call returns
    branch,             \* per thread: the branch addRequest's body took
    fault,              \* the process ended in undefined behaviour
    allowed,            \* history: per client and window, calls answered 0
    requests,           \* history: per client and window, calls not bypassed
    answers,            \* history of a single caller: per client, the second and the answer of
                        \* each of its calls that was not bypassed
    lastCsNow,          \* history: reading of the last call to lock the mutex
    addr,               \* the address text last handed to getClientId
    parts,              \* history: whether a text was handed over, and its parts
    clientId,           \* what getClientId returned for it
    handler,            \* per thread: the request createRequestHandler is serving
    served              \* history: handlers that got an answer from addRequest

vars == <<rateLimit, appStartTime, currentWindowStart, requestCounts, clients,
          mutex, clock, pc, client, secSinceStart, ret, branch, fault, allowed,
          requests, answers, lastCsNow, addr, parts, clientId, handler,
          served>>

trackerVars == <<rateLimit, appStartTime, currentWindowStart, requestCounts,
                 clients, mutex, clock, pc, client, secSinceStart, ret, branch, fault,
                 allowed, requests, answers, lastCsNow>>

idVars == <<addr, parts, clientId>>

handlerVars == <<handler, served>>

\* A thread that serves no request
NoRequest == [uri |-> "", addr |-> <<>>, id |-> NoId, response |-> "none",
              wait |-> 0]

\* The empty requestCounts table
EmptyCounts == [c \in {} |-> 0]

\* Windows of the model: the index of the aligned window a second lies in
MaxSecond == MaxClock \div TicksPerSec
Windows == 0..MaxSecond
WindowOf(e, p) == IF p > 0 THEN e \div p ELSE 0

(***************************************************************************)
(* addRequest's arithmetic.                                                *)
(***************************************************************************)
\* duration_cast<seconds>(now - appStartTime).count()
SecSinceStart(n, start) == (n - start) \div TicksPerSec

\* C++ a % b for b # 0: the result has the sign of the dividend
CMod(a, b) ==
    LET d == IF b < 0 THEN -b ELSE b
    IN  IF a >= 0 THEN a % d ELSE -((-a) % d)

\* Mutant: the membership test inverted
BypassedInverted(cl, c) == cl # {} /\ c \in cl

\* !clients.empty() && clients.find(client) == clients.end()
Bypassed(cl, c) == cl # {} /\ c \notin cl

\* secSinceStart >= currentWindowStart &&
\* secSinceStart < currentWindowStart + rateLimit.period
InWindow(e, ws, p) == e >= ws /\ e < ws + p

\* int& requestCount = requestCounts[client]: inserts 0 when absent
Lookup(cnts, c) == IF c \in DOMAIN cnts THEN cnts ELSE cnts @@ (c :> 0)

\* Mutant: the seconds elapsed in the window, not those remaining
WaitTimeElapsed(e, ws, p) == e - ws

\* Mutant: the whole period, whatever has elapsed of the window
WaitTimeWholePeriod(e, ws, p) == p

\* rateLimit.period - (secSinceStart - currentWindowStart)
WaitTime(e, ws, p) == p - (e - ws)

\* Mutant: the window starts at the arrival instant
ArrivalStart(e, p) == e

\* secSinceStart - (secSinceStart % rateLimit.period)
AlignedStart(e, p) == e - CMod(e, p)

\* Mutant: the table is not cleared
RolloverCountsKept(cnts, c) == [Lookup(cnts, c) EXCEPT ![c] = 1]

\* requestCounts.clear(); requestCounts[client] = 1
RolloverCounts(cnts, c) == (c :> 1)

\* if (requestCount < rateLimit.num) requestCount++
CountedCounts(cnts, c) == [Lookup(cnts, c) EXCEPT ![c] = @ + 1]

\* Mutant: a denied request is counted all the same
DeniedCountsIncremented(cnts, c) == [Lookup(cnts, c) EXCEPT ![c] = @ + 1]

\* The table of a denied request: looked up (line 45), not incremented
DeniedCounts(cnts, c) == Lookup(cnts, c)

\* currentWindowStart + rateLimit.period overflows a long
SumOverflows(ws, p) == p < 0 /\ ws < LongLowest - p

(***************************************************************************)
(* Construction.                                                           *)
(***************************************************************************)
InitWith(cfgs) ==
    /\ rateLimit \in cfgs
    /\ clock = 0
    /\ appStartTime = 0
    /\ currentWindowStart = InitialWindowStart
    /\ requestCounts = EmptyCounts
    /\ clients = {}
    /\ mutex = "free"
    /\ pc = [t \in Threads |-> "idle"]
    /\ client = [t \in Threads |-> NoId]
    /\ secSinceStart = [t \in Threads |-> 0]
    /\ ret = [t \in Threads |-> 0]
    /\ branch = [t \in Threads |-> "none"]
    /\ fault = FALSE
    /\ allowed = [c \in ClientIds |-> [k \in Windows |-> 0]]
    /\ requests = [c \in ClientIds |-> [k \in Windows |-> 0]]
    /\ answers = [c \in ClientIds |-> <<>>]
    /\ lastCsNow = 0
    /\ addr = <<>>
    /\ parts = [given |-> FALSE, pre |-> <<>>, octets |-> <<>>, suf |-> <<>>]
    /\ clientId = NoId
    /\ handler = [t \in Threads |-> NoRequest]
    /\ served = 0

Init == InitWith(ValidConfigs)

(***************************************************************************)
(* The time source: steady_clock, or the tests' ManualClock::advance.      *)
(***************************************************************************)
Tick ==
    /\ ~fault
    /\ clock < MaxClock
    /\ clock' = clock + 1
    /\ UNCHANGED <<rateLimit, appStartTime, currentWindowStart, requestCounts,
                   clients, mutex, pc, client, secSinceStart, ret, branch, fault,
                   allowed, requests, answers, lastCsNow,
                   idVars, handlerVars>>

(***************************************************************************)
(* History bookkeeping.                                                    *)
(***************************************************************************)
RECURSIVE SumWindows(_, _)
SumWindows(f, ks) ==
    IF ks = {} THEN 0
    ELSE LET k == CHOOSE x \in ks : TRUE
         IN  f[k] + SumWindows(f, ks \ {k})

RECURSIVE SumClients(_, _)
SumClients(f, cs) ==
    IF cs = {} THEN 0
    ELSE LET c == CHOOSE x \in cs : TRUE
         IN  SumWindows(f[c], Windows) + SumClients(f, cs \ {c})

\* addRequest calls made so far that were not bypassed, and those in flight
CallsMade ==
    SumClients(requests, ClientIds)
    + Cardinality({t \in Threads : pc[t] \in {"ar_lock", "ar_cs"}})

\* The histories after a call of c at second e that took branch b
Record(c, e, b) ==
    LET k == WindowOf(e, rateLimit.period)
    IN  /\ requests' = [requests EXCEPT ![c][k] = @ + 1]
        /\ allowed' = IF b \in {"count", "rollover"}
                      THEN [allowed EXCEPT ![c][k] = @ + 1]
                      ELSE allowed

(***************************************************************************)
(* RequestRateTracker::addRequest                                          *)
(***************************************************************************)
\* auto now = nowFunction(); secSinceStart = duration_cast<seconds>(...):
\* the clock is read before the mutex is locked
AddRequestCall(t, c) ==
    /\ ~fault
    /\ pc[t] = "idle"
    /\ CallsMade < MaxCalls
    /\ pc' = [pc EXCEPT ![t] = "ar_lock"]
    /\ client' = [client EXCEPT ![t] = c]
    /\ secSinceStart' =
           [secSinceStart EXCEPT ![t] = SecSinceStart(clock, appStartTime)]
    /\ UNCHANGED <<rateLimit, appStartTime, currentWindowStart, requestCounts,
                   clients, mutex, clock, ret, branch, fault, allowed,
                   requests, answers, lastCsNow, idVars, handlerVars>>

\* Mutant: the lock is taken without waiting for its holder
AcquireUnguarded(t) == mutex' = t

\* Mutex::ScopedLock lock(requestCountsMutex): blocks until the mutex is free
Acquire(t) == mutex = "free" /\ mutex' = t

\* Mutant: a return path that leaves the mutex locked
ReleaseSkipped(t) == mutex = t /\ mutex' = mutex

\* ~ScopedLock(): the holder unlocks the mutex when the call returns
Release(t) == mutex = t /\ mutex' = "free"

AddRequestLock(t) ==
    /\ ~fault
    /\ pc[t] = "ar_lock"
    /\ Acquire(t)
    /\ pc' = [pc EXCEPT ![t] = "ar_cs"]
    /\ lastCsNow' = secSinceStart[t]
    /\ UNCHANGED <<rateLimit, appStartTime, currentWindowStart, requestCounts,
                   clients, clock, client, secSinceStart, ret, branch, fault,
                   allowed, requests, answers, idVars, handlerVars>>

\* Mutant: the count is compared with <=
BranchOfOffByOne(cl, cnts, ws, rl, c, e) ==
    IF Bypassed(cl, c) THEN "bypass"
    ELSE IF InWindow(e, ws, rl.period)
         THEN IF Lookup(cnts, c)[c] <= rl.num THEN "count" ELSE "deny"
         ELSE "rollover"

\* The branch the body takes: "bypass", "count", "deny" or "rollover"
BranchOf(cl, cnts, ws, rl, c, e) ==
    IF Bypassed(cl, c) THEN "bypass"
    ELSE IF InWindow(e, ws, rl.period)
         THEN IF Lookup(cnts, c)[c] < rl.num THEN "count" ELSE "deny"
         ELSE "rollover"

\* The body of addRequest, the mutex held, where its arithmetic is defined
AddRequestBody(t) ==
    LET c == client[t]
        e == secSinceStart[t]
        ws == currentWindowStart
        p == rateLimit.period
    IN  /\ ~fault
        /\ pc[t] = "ar_cs"
        /\ mutex = t
        /\ ~(~Bypassed(clients, c) /\ SumOverflows(ws, p))
        /\ LET b == BranchOf(clients, requestCounts, ws, rateLimit, c, e)
           IN  /\ b = "rollover" => p # 0
               /\ branch' = [branch EXCEPT ![t] = b]
               /\ requestCounts' =
                      CASE b = "bypass" -> requestCounts
                        [] b = "count" -> CountedCounts(requestCounts, c)
                        [] b = "deny" -> DeniedCounts(requestCounts, c)
                        [] b = "rollover" -> RolloverCounts(requestCounts, c)
               /\ currentWindowStart' =
                      IF b = "rollover" THEN AlignedStart(e, p) ELSE ws
               /\ ret' = [ret EXCEPT ![t] =
                             IF b = "deny" THEN WaitTime(e, ws, p) ELSE 0]
               /\ IF b = "bypass"
                  THEN UNCHANGED <<allowed, requests>>
                  ELSE Record(c, e, b)
        /\ pc' = [pc EXCEPT ![t] = "ar_ret"]
        /\ UNCHANGED <<rateLimit, appStartTime, clients, mutex, clock, client,
                       secSinceStart, fault, answers, lastCsNow,
                       idVars, handlerVars>>

\* The ScopedLock is destroyed and the call returns
Returned(t) ==
    /\ ~fault
    /\ pc[t] = "ar_ret"
    /\ Release(t)
    /\ pc' = [pc EXCEPT ![t] = "idle"]
    /\ client' = [client EXCEPT ![t] = NoId]
    /\ secSinceStart' = [secSinceStart EXCEPT ![t] = 0]
    /\ ret' = [ret EXCEPT ![t] = 0]
    /\ branch' = [branch EXCEPT ![t] = "none"]
    /\ UNCHANGED <<rateLimit, appStartTime, currentWindowStart, requestCounts,
                   clients, clock, fault, allowed, requests, lastCsNow, idVars>>

AddRequestReturn(t) == Returned(t) /\ UNCHANGED <<answers, handlerVars>>

\* The same return of a single caller, who notes the answer
AddRequestReturnNoted(t) ==
    /\ Returned(t)
    /\ answers' =
           IF branch[t] # "bypass"
           THEN [answers EXCEPT ![client[t]] =
                    Append(@, [at |-> secSinceStart[t], wait |-> ret[t]])]
           ELSE answers
    /\ UNCHANGED handlerVars

(***************************************************************************)
(* RequestRateTracker::addClient                                           *)
(***************************************************************************)
AddClientLock(t, id) ==
    /\ ~fault
    /\ pc[t] = "idle"
    /\ Acquire(t)
    /\ pc' = [pc EXCEPT ![t] = "ac_cs"]
    /\ client' = [client EXCEPT ![t] = id]
    /\ UNCHANGED <<rateLimit, appStartTime, currentWindowStart, requestCounts,
                   clients, clock, secSinceStart, ret, branch, fault, allowed, requests,
                   answers, lastCsNow, idVars, handlerVars>>

\* Mutant: the id is added unchecked
AddedClientsUnchecked(cl, id) == cl \cup {id}

\* if (id != 0) clients.emplace(id)
AddedClients(cl, id) == IF id # NoId THEN cl \cup {id} ELSE cl

AddClientBody(t) ==
    /\ ~fault
    /\ pc[t] = "ac_cs"
    /\ mutex = t
    /\ clients' = AddedClients(clients, client[t])
    /\ pc' = [pc EXCEPT ![t] = "ac_ret"]
    /\ UNCHANGED <<rateLimit, appStartTime, currentWindowStart, requestCounts,
                   mutex, clock, client, secSinceStart, ret, branch, fault,
                   allowed, requests, answers, lastCsNow, idVars, handlerVars>>

AddClientReturn(t) ==
    /\ ~fault
    /\ pc[t] = "ac_ret"
    /\ Release(t)
    /\ pc' = [pc EXCEPT ![t] = "idle"]
    /\ client' = [client EXCEPT ![t] = NoId]
    /\ UNCHANGED <<rateLimit, appStartTime, currentWindowStart, requestCounts,
                   clients, clock, secSinceStart, ret, branch, fault, allowed,
                   requests, answers, lastCsNow, idVars, handlerVars>>

(***************************************************************************)
(* RequestRateTracker::size                                                *)
(***************************************************************************)
SizeLock(t) ==
    /\ ~fault
    /\ pc[t] = "idle"
    /\ Acquire(t)
    /\ pc' = [pc EXCEPT ![t] = "sz_cs"]
    /\ UNCHANGED <<rateLimit, appStartTime, currentWindowStart, requestCounts,
                   clients, clock, client, secSinceStart, ret, branch, fault, allowed,
                   requests, answers, lastCsNow, idVars, handlerVars>>

\* return requestCounts.size()
SizeOf(cnts) == Cardinality(DOMAIN cnts)

SizeBody(t) ==
    /\ ~fault
    /\ pc[t] = "sz_cs"
    /\ mutex = t
    /\ ret' = [ret EXCEPT ![t] = SizeOf(requestCounts)]
    /\ pc' = [pc EXCEPT ![t] = "sz_ret"]
    /\ UNCHANGED <<rateLimit, appStartTime, currentWindowStart, requestCounts,
                   clients, mutex, clock, client, secSinceStart, branch, fault, allowed,
                   requests, answers, lastCsNow, idVars, handlerVars>>

SizeReturn(t) ==
    /\ ~fault
    /\ pc[t] = "sz_ret"
    /\ Release(t)
    /\ pc' = [pc EXCEPT ![t] = "idle"]
    /\ ret' = [ret EXCEPT ![t] = 0]
    /\ UNCHANGED <<rateLimit, appStartTime, currentWindowStart, requestCounts,
                   clients, clock, client, secSinceStart, branch, fault, allowed,
                   requests, answers, lastCsNow, idVars, handlerVars>>

(***************************************************************************)
(* The worker threads of the server share one tracker.                     *)
(***************************************************************************)
OtherCalls(t) ==
    \/ \E c \in ClientIds : AddRequestCall(t, c)
    \/ AddRequestLock(t)
    \/ AddRequestBody(t)
    \/ \E id \in ClientIds : AddClientLock(t, id)
    \/ AddClientBody(t)
    \/ AddClientReturn(t)
    \/ SizeLock(t)
    \/ SizeBody(t)
    \/ SizeReturn(t)

Next == Tick \/ \E t \in Threads : (OtherCalls(t) \/ AddRequestReturn(t))

Spec == Init /\ [][Next]_vars

\* Fair scheduling: a thread that can run the body of its call or return from
\* it eventually does, and a thread waiting for the mutex eventually gets it
\* if the mutex is free again and again
Fairness ==
    \A t \in Threads :
        /\ SF_vars(AddRequestLock(t))
        /\ WF_vars(AddRequestBody(t))
        /\ WF_vars(AddRequestReturn(t))
        /\ WF_vars(AddClientBody(t))
        /\ WF_vars(AddClientReturn(t))
        /\ WF_vars(SizeBody(t))
        /\ WF_vars(SizeReturn(t))

\* The threads under fair scheduling, over a shorter stretch of time
FairTick == Tick /\ clock' <= MaxFairClock

FairAddRequestCall(t, c) == AddRequestCall(t, c) /\ CallsMade' <= MaxFairCalls

FairNext ==
    \/ FairTick
    \/ \E t \in Threads :
          \/ \E c \in ClientIds : FairAddRequestCall(t, c)
          \/ AddRequestLock(t)
          \/ AddRequestBody(t)
          \/ AddRequestReturn(t)
          \/ \E id \in ClientIds : AddClientLock(t, id)
          \/ AddClientBody(t)
          \/ AddClientReturn(t)
          \/ SizeLock(t)
          \/ SizeBody(t)
          \/ SizeReturn(t)

FairSpec == Init /\ [][FairNext]_vars /\ Fairness

\* One caller: the calls run one after the other
SeqNext == Tick \/ OtherCalls("t1") \/ AddRequestReturnNoted("t1")

SeqSpec == Init /\ [][SeqNext]_vars

(***************************************************************************)
(* The test fixture: setUp's tracker {num = 2, period = 10} with the       *)
(* ManualClock, which stands still unless a test advances it by whole      *)
(* seconds, and the test as the single caller.                             *)
(***************************************************************************)
FixtureInit == InitWith({[num |-> 2, period |-> 10]})

\* The steps the tests advance the clock by, in seconds
AdvanceSteps == {1, 3, 9}

\* ManualClock::advance(std::chrono::seconds(d))
ManualClockAdvance(d) ==
    /\ ~fault
    /\ pc["t1"] = "idle"
    /\ SecSinceStart(clock, appStartTime) + d <= MaxFixtureSecond
    /\ clock' = clock + d * TicksPerSec
    /\ UNCHANGED <<rateLimit, appStartTime, currentWindowStart, requestCounts,
                   clients, mutex, pc, client, secSinceStart, ret, branch, fault,
                   allowed, requests, answers, lastCsNow,
                   idVars, handlerVars>>

FixtureNext ==
    \/ \E d \in AdvanceSteps : ManualClockAdvance(d)
    \/ OtherCalls("t1")
    \/ AddRequestReturnNoted("t1")

FixtureSpec == FixtureInit /\ [][FixtureNext]_vars

(***************************************************************************)
(* A tracker constructed with whatever the configuration holds.  The       *)
(* constructor stores the rate limit unchecked, so addRequest can divide   *)
(* by a zero period or overflow currentWindowStart + period: undefined     *)
(* behaviour, which either traps (the process ends) or carries on with     *)
(* the value the hardware delivers.                                        *)
(***************************************************************************)
AnyInit == InitWith(AnyConfigs)

\* secSinceStart % rateLimit.period with period = 0, after the table was
\* cleared: a trap (x86), or the remainder is the dividend (AArch64)
AddRequestDivideByZero(t) ==
    LET c == client[t]
        e == secSinceStart[t]
    IN  /\ ~fault
        /\ pc[t] = "ar_cs"
        /\ mutex = t
        /\ ~SumOverflows(currentWindowStart, rateLimit.period)
        /\ BranchOf(clients, requestCounts, currentWindowStart, rateLimit,
                    c, e) = "rollover"
        /\ rateLimit.period = 0
        /\ \/ /\ fault' = TRUE
              /\ requestCounts' = EmptyCounts
              /\ UNCHANGED <<currentWindowStart, pc, ret, branch, allowed,
                             requests>>
           \/ /\ requestCounts' = RolloverCounts(requestCounts, c)
              /\ currentWindowStart' = e - e
              /\ ret' = [ret EXCEPT ![t] = 0]
              /\ branch' = [branch EXCEPT ![t] = "rollover"]
              /\ pc' = [pc EXCEPT ![t] = "ar_ret"]
              /\ Record(c, e, "rollover")
              /\ UNCHANGED fault
        /\ UNCHANGED <<rateLimit, appStartTime, clients, mutex, clock, client,
                       secSinceStart, answers, lastCsNow, idVars, handlerVars>>

\* currentWindowStart + rateLimit.period overflows (period < 0 and the window
\* start still the lowest long): a trap, or the sum wraps around to a value
\* above every second, so that the request is inside the window; the wait of
\* a denied request then wraps as well
AddRequestOverflow(t) ==
    LET c == client[t]
        e == secSinceStart[t]
        b == IF Lookup(requestCounts, c)[c] < rateLimit.num
             THEN "count" ELSE "deny"
    IN  /\ ~fault
        /\ pc[t] = "ar_cs"
        /\ mutex = t
        /\ ~Bypassed(clients, c)
        /\ SumOverflows(currentWindowStart, rateLimit.period)
        /\ \/ /\ fault' = TRUE
              /\ UNCHANGED <<requestCounts, pc, ret, branch, allowed,
                             requests>>
           \/ /\ requestCounts' = IF b = "count"
                                  THEN CountedCounts(requestCounts, c)
                                  ELSE DeniedCounts(requestCounts, c)
              /\ ret' = [ret EXCEPT ![t] =
                            IF b = "count" THEN 0
                            ELSE LongMax + (1 + rateLimit.period - e)]
              /\ branch' = [branch EXCEPT ![t] = b]
              /\ pc' = [pc EXCEPT ![t] = "ar_ret"]
              /\ Record(c, e, b)
              /\ UNCHANGED fault
        /\ UNCHANGED <<rateLimit, appStartTime, currentWindowStart, clients,
                       mutex, clock, client, secSinceStart, answers,
                       lastCsNow, idVars, handlerVars>>

AnyNext ==
    \/ Next
    \/ \E t \in Threads : AddRequestDivideByZero(t)
    \/ \E t \in Threads : AddRequestOverflow(t)

AnySpec == AnyInit /\ [][AnyNext]_vars

(***************************************************************************)
(* RequestRateTracker::getClientId.  An address text is a sequence of      *)
(* characters; the id is a uint32_t kept as <<high 16 bits, low 16 bits>>. *)
(***************************************************************************)
DigitChars == <<"0", "1", "2", "3", "4", "5", "6", "7", "8", "9">>
Letters == {"a", "b", "c", "d", "e", "f", "g", "h", "i", "j", "k", "l", "m", "n", "o", "p", "q", "r", "s", "t", "u", "v", "w", "x", "y", "z",
            "A", "B", "C", "D", "E", "F", "G", "H", "I", "J", "K", "L", "M", "N", "O", "P", "Q", "R", "S", "T", "U", "V", "W", "X", "Y", "Z"}

IsDigit(ch) == \E d \in 1..10 : DigitChars[d] = ch
DigitValue(ch) == (CHOOSE d \in 1..10 : DigitChars[d] = ch) - 1
\* \w of the regular expression
IsWordChar(ch) == IsDigit(ch) \/ ch \in Letters \/ ch = "_"

\* The character at position i, or "" outside the text
CharAt(s, i) == IF i >= 1 /\ i <= Len(s) THEN s[i] ELSE ""

\* \b before position i: exactly one neighbour is a word character
Boundary(s, i) == IsWordChar(CharAt(s, i - 1)) # IsWordChar(CharAt(s, i))

\* [0-9]{n} at position i
DigitsAt(s, i, n) == \A j \in i..(i + n - 1) : IsDigit(CharAt(s, j))

\* The ways \b([0-9]{1,3})\.([0-9]{1,3})\.([0-9]{1,3})\.([0-9]{1,3})\b
\* matches at position i: the lengths of its four groups
MatchesAt(s, i) ==
    IF ~Boundary(s, i) THEN {}
    ELSE {n \in (1..3) \X (1..3) \X (1..3) \X (1..3) :
            LET i2 == i + n[1] + 1
                i3 == i2 + n[2] + 1
                i4 == i3 + n[3] + 1
            IN  /\ DigitsAt(s, i, n[1])
                /\ CharAt(s, i2 - 1) = "."
                /\ DigitsAt(s, i2, n[2])
                /\ CharAt(s, i3 - 1) = "."
                /\ DigitsAt(s, i3, n[3])
                /\ CharAt(s, i4 - 1) = "."
                /\ DigitsAt(s, i4, n[4])
                /\ Boundary(s, i4 + n[4])}

\* Greedy quantifiers: the longest first group, then the longest second, ...
Longer(n, m) ==
    \E k \in 1..4 : n[k] > m[k] /\ \A j \in 1..(k - 1) : n[j] = m[j]
Greedy(ms) == CHOOSE n \in ms : \A m \in ms \ {n} : Longer(n, m)

\* std::regex_search: the groups of the leftmost match, or <<>>
RegexSearch(s) ==
    LET starts == {i \in 1..Len(s) : MatchesAt(s, i) # {}}
    IN  IF starts = {} THEN <<>>
        ELSE LET i == CHOOSE x \in starts : \A y \in starts : x <= y
                 n == Greedy(MatchesAt(s, i))
                 i2 == i + n[1] + 1
                 i3 == i2 + n[2] + 1
                 i4 == i3 + n[3] + 1
             IN  <<SubSeq(s, i, i + n[1] - 1), SubSeq(s, i2, i2 + n[2] - 1),
                   SubSeq(s, i3, i3 + n[3] - 1), SubSeq(s, i4, i4 + n[4] - 1)>>

\* std::stoul of a group of digits
RECURSIVE Stoul(_)
Stoul(g) ==
    IF g = <<>> THEN 0
    ELSE Stoul(SubSeq(g, 1, Len(g) - 1)) * 10 + DigitValue(g[Len(g)])

RECURSIVE BitAnd(_, _)
BitAnd(x, y) ==
    IF x = 0 \/ y = 0 THEN 0
    ELSE (IF x % 2 = 1 /\ y % 2 = 1 THEN 1 ELSE 0)
         + 2 * BitAnd(x \div 2, y \div 2)

RECURSIVE BitOr(_, _)
BitOr(x, y) ==
    IF x = 0 THEN y
    ELSE IF y = 0 THEN x
    ELSE (IF x % 2 = 1 \/ y % 2 = 1 THEN 1 ELSE 0)
         + 2 * BitOr(x \div 2, y \div 2)

\* CHAR_BIT
CharBit == 8
Half == 65536

\* id << CHAR_BIT on a uint32_t: the bits shifted out are lost
ShiftLeft(id) ==
    LET m == 2 ^ CharBit
    IN  <<(id[1] * m + (id[2] * m) \div Half) % Half, (id[2] * m) % Half>>

\* id | b for a byte b
OrByte(id, b) == <<id[1], BitOr(id[2], b)>>

\* stoul(results[i]) & 0xFF
OctetOf(g) == BitAnd(Stoul(g), 255)

\* Mutant: the groups are packed least significant first
RECURSIVE PackReversed(_, _)
PackReversed(id, gs) ==
    IF gs = <<>> THEN id
    ELSE PackReversed(OrByte(ShiftLeft(id), OctetOf(gs[Len(gs)])),
                      SubSeq(gs, 1, Len(gs) - 1))

\* for (i = 1; i < results.size(); i++)
\*     clientId = (clientId << CHAR_BIT) | (std::stoul(results[i]) & 0xFF)
RECURSIVE Pack(_, _)
Pack(id, gs) ==
    IF gs = <<>> THEN id
    ELSE Pack(OrByte(ShiftLeft(id), OctetOf(gs[1])), Tail(gs))

PackGroups(gs) == Pack(NoId, gs)

getClientId(s) ==
    LET gs == RegexSearch(s)
    IN  IF gs = <<>> THEN NoId ELSE PackGroups(gs)

(***************************************************************************)
(* The address texts getClientId is applied to.                            *)
(***************************************************************************)
\* A number as decimal digits
RECURSIVE Decimal(_)
Decimal(v) ==
    IF v < 10 THEN <<DigitChars[v + 1]>>
    ELSE Decimal(v \div 10) \o <<DigitChars[(v % 10) + 1]>>

\* The groups of the addresses tried: in a byte's range and beyond it
OctetValues == {0, 1, 127, 255, 256, 999}
Prefixes == {<<>>, <<"x">>, <<"1", ".">>}
\* Nothing, or the port that SocketAddress::toString appends
Suffixes == {<<>>, <<":", "8", "0">>}
\* Texts that hold no four groups of 1-3 digits separated by dots
NoQuadTexts ==
    {<<>>,
     <<"1", "2", "7", ".", "0", ".", "X", "X", "X", ".", "X", "X", "X">>,
     <<"1", ".", "2", ".", "3">>,
     <<":", ":", "1">>,
     <<"l", "o", "c", "a", "l", "h", "o", "s", "t">>,
     <<"1", ".", "2", "3", "4", "5", ".", "6", ".", "7">>,
     <<"1", ".", ".", "2", ".", "3">>,
     <<"a", ".", "b", ".", "c", ".", "d">>}

DottedQuad(q) ==
    Decimal(q[1]) \o <<".">> \o Decimal(q[2]) \o <<".">>
    \o Decimal(q[3]) \o <<".">> \o Decimal(q[4])

\* The tracker of the tests' setUp
IdInit == InitWith({[num |-> 2, period |-> 10]})

GetClientIdOfAddress(pre, q, suf) ==
    /\ ~parts.given
    /\ addr' = pre \o DottedQuad(q) \o suf
    /\ parts' = [given |-> TRUE, pre |-> pre, octets |-> q, suf |-> suf]
    /\ clientId' = getClientId(addr')
    /\ UNCHANGED <<trackerVars, handlerVars>>

GetClientIdOfText(txt) ==
    /\ ~parts.given
    /\ addr' = txt
    /\ parts' = [given |-> TRUE, pre |-> <<>>, octets |-> <<>>, suf |-> <<>>]
    /\ clientId' = getClientId(addr')
    /\ UNCHANGED <<trackerVars, handlerVars>>

IdNext ==
    \/ \E pre \in Prefixes, suf \in Suffixes :
         \E q \in OctetValues \X OctetValues \X OctetValues \X OctetValues :
            GetClientIdOfAddress(pre, q, suf)
    \/ \E txt \in NoQuadTexts : GetClientIdOfText(txt)

IdSpec == IdInit /\ [][IdNext]_vars

(***************************************************************************)
(* TimeRequestHandlerFactory::createRequestHandler: the server's worker    *)
(* threads derive the client id from the peer address of each request and  *)
(* ask the one tracker of the factory.  Nothing registers tracked clients. *)
(***************************************************************************)
\* request.getURI()
Uris == {"/", "/favicon.ico"}

\* request.clientAddress().toString(): IPv4 peers as a.b.c.d:port, IPv6
\* peers as [address]:port
RequestAddresses ==
    {<<"1", "2", "7", ".", "0", ".", "0", ".", "1", ":", "8", "0">>,
     <<"1", "2", "7", ".", "0", ".", "0", ".", "2", ":", "8", "0">>,
     <<"0", ".", "0", ".", "0", ".", "0", ":", "8", "0">>,
     <<"[", ":", ":", "1", "]", ":", "8", "0">>}

\* RequestRateTracker::getClientId(clientAddrStr) for each of them
AddressIds == [txt \in RequestAddresses |-> getClientId(txt)]

\* Mutant: the id is not tested
FirstAnswerUnchecked(uri, id) == IF uri # "/" THEN "null" ELSE "pending"

\* What createRequestHandler returns before it asks the tracker: no handler
\* ("null") for another URI, ServiceUnavailableHandler for the id 0
FirstAnswer(uri, id) ==
    IF uri # "/" THEN "null"
    ELSE IF id = NoId THEN "503"
    ELSE "pending"

\* if (waitTime > 0) RateLimitExceededHandler, else TimeRequestHandler
AnswerOf(w) == IF w > 0 THEN "429" ELSE "200"

\* createRequestHandler up to its call of addRequest
CreateRequestHandler(t, uri, txt) ==
    /\ ~fault
    /\ pc[t] = "idle"
    /\ handler[t] = NoRequest
    /\ handler' = [handler EXCEPT ![t] =
                      [uri |-> uri, addr |-> txt, id |-> AddressIds[txt],
                       response |-> FirstAnswer(uri, AddressIds[txt]),
                       wait |-> 0]]
    /\ UNCHANGED <<trackerVars, idVars, served>>

\* rateTracker.addRequest(clientId)
HandlerAddRequestCall(t) ==
    /\ handler[t].response = "pending"
    /\ AddRequestCall(t, handler[t].id)

\* waitTime = rateTracker.addRequest(clientId) returns; the handler is chosen
HandlerAddRequestReturn(t) ==
    /\ handler[t].response = "pending"
    /\ Returned(t)
    /\ handler' = [handler EXCEPT ![t].response = AnswerOf(ret[t]),
                                  ![t].wait = ret[t]]
    /\ served' = served + 1
    /\ UNCHANGED answers

\* The handler is handed to the server, which sends its response
SendResponse(t) ==
    /\ ~fault
    /\ handler[t].response \in {"null", "503", "429", "200"}
    /\ handler' = [handler EXCEPT ![t] = NoRequest]
    /\ UNCHANGED <<trackerVars, idVars, served>>

ServerNext ==
    \/ Tick
    \/ \E t \in Threads :
          \/ \E uri \in Uris, txt \in RequestAddresses :
                CreateRequestHandler(t, uri, txt)
          \/ HandlerAddRequestCall(t)
          \/ AddRequestLock(t)
          \/ AddRequestBody(t)
          \/ HandlerAddRequestReturn(t)
          \/ SendResponse(t)

ServerSpec == Init /\ [][ServerNext]_vars

(***************************************************************************)
(* Properties of the tracker.                                              *)
(***************************************************************************)
\* A thread whose addRequest has run its body and not yet returned
Answered(t) == pc[t] = "ar_ret"
\* The step of thread t that runs addRequest's body
BodyStep(t) == pc[t] = "ar_cs" /\ pc'[t] = "ar_ret"
\* The sentinel aside, is second e inside the current window?
InCurrentWindow(e) ==
    /\ currentWindowStart # LongLowest
    /\ currentWindowStart <= e
    /\ e < currentWindowStart + rateLimit.period
\* Client c is enforced: the tracked set is empty or holds c
Enforced(c) == clients = {} \/ c \in clients

\* C1: under any interleaving, for every enforced client and every aligned
\* window, at most num of its calls whose clock reading lies in that window
\* are answered 0.
C1_AtMostNumAllowedPerWindow ==
    \A c \in ClientIds : \A k \in Windows : allowed[c][k] <= rateLimit.num

C3_FirstRequestAllowed ==
    \A t \in Threads :
        (/\ Answered(t)
         /\ clients = {}
         /\ SumClients(requests, ClientIds) = 1) =>
            /\ ret[t] = 0
            /\ branch[t] = "rollover"
            /\ requestCounts = (client[t] :> 1)
            /\ currentWindowStart <= secSinceStart[t]
            /\ secSinceStart[t] < currentWindowStart + rateLimit.period

C3_Witness ==
    \E t \in Threads :
        /\ Answered(t)
        /\ clients = {}
        /\ SumClients(requests, ClientIds) = 1
        /\ client[t] = NoId
        /\ secSinceStart[t] = MaxSecond
        /\ ret[t] = 0

C5_UntrackedBypassed ==
    [][\A t \in Threads :
          (BodyStep(t) /\ clients # {}) =>
              IF client[t] \notin clients
              THEN /\ ret'[t] = 0
                   /\ currentWindowStart' = currentWindowStart
                   /\ requestCounts' = requestCounts
              ELSE (/\ InCurrentWindow(secSinceStart[t])
                    /\ client[t] \in DOMAIN requestCounts
                    /\ requestCounts[client[t]] >= rateLimit.num)
                   => /\ ret'[t] > 0
                      /\ requestCounts' = requestCounts]_vars

C5_Witness ==
    \E t \in Threads :
        /\ Answered(t)
        /\ clients # {}
        /\ client[t] \notin clients
        /\ ret[t] = 0
        /\ InCurrentWindow(secSinceStart[t])
        /\ client[t] \in DOMAIN requestCounts
        /\ requestCounts[client[t]] >= rateLimit.num
        /\ \E d \in clients : d \in DOMAIN requestCounts

\* C6: addRequest reads the clock while it holds the mutex, so that the
\* readings are ordered as the calls lock the mutex.
C6_ReadingsOrderedAsLocked ==
    [][\A t \in Threads :
          (pc[t] = "ar_lock" /\ pc'[t] = "ar_cs")
          => secSinceStart[t] >= lastCsNow]_vars

C7_BadConfigRejected ==
    /\ ~fault
    /\ \A t \in Threads :
           pc[t] = "ar_cs" => (rateLimit.num > 0 /\ rateLimit.period > 0)

\* A thread inside the code that touches the window start, the table or the
\* tracked set
InCritical(t) ==
    pc[t] \in {"ar_cs", "ar_ret", "ac_cs", "ac_ret", "sz_cs", "sz_ret"}

\* C12: a thread inside the code of addRequest, size or addClient that reads
\* or writes the window start, the table or the tracked set holds the mutex,
\* no two threads are inside such code at once, and every step that changes
\* this state is taken by the thread that holds the mutex.
C12_MutualExclusion ==
    /\ [](/\ \A t \in Threads : InCritical(t) => mutex = t
          /\ \A t, u \in Threads : (InCritical(t) /\ InCritical(u)) => t = u)
    /\ [][(\/ currentWindowStart' # currentWindowStart
           \/ requestCounts' # requestCounts
           \/ clients' # clients)
          => \E t \in Threads :
                 /\ InCritical(t)
                 /\ mutex = t
                 /\ pc'[t] # pc[t]
                 /\ \A u \in Threads \ {t} : pc'[u] = pc[u]]_vars

C12_Witness ==
    \E t, u \in Threads :
        /\ t # u
        /\ pc[t] = "ar_cs"
        /\ mutex = t
        /\ pc[u] = "ar_lock"
        /\ requestCounts # EmptyCounts

\* C13: with a valid configuration and fair scheduling every call of
\* addRequest, size and addClient returns, whichever branch it takes, and a
\* thread that is not inside a call does not hold the mutex.
C13_CallsReturnLockReleased ==
    /\ \A t \in Threads : (pc[t] # "idle") ~> (pc[t] = "idle")
    /\ [](\A t \in Threads : pc[t] = "idle" => mutex # t)
    /\ \A t \in Threads : (mutex = t) ~> (mutex # t)

\* A denied call that held the mutex while the other thread waited for it
C13_Witness ==
    \E t, u \in Threads :
        /\ t # u
        /\ Answered(t)
        /\ branch[t] = "deny"
        /\ mutex = t
        /\ pc[u] = "ar_lock"

\* C14: addClient(0) leaves the tracked set, the window start and the table
\* unchanged, and addClient(id) with id # 0 adds id and nothing else; so the
\* tracked set never holds 0, and a tracker on which only 0 was registered
\* still enforces the limit on everyone (its tracked set is empty).
C14_SentinelNeverTracked ==
    /\ [](NoId \notin clients)
    /\ [][\A t \in Threads :
            (pc[t] = "ac_cs" /\ pc'[t] = "ac_ret") =>
                /\ currentWindowStart' = currentWindowStart
                /\ requestCounts' = requestCounts
                /\ IF client[t] = NoId
                   THEN clients' = clients
                   ELSE clients' = clients \cup {client[t]}]_vars

\* addClient(0) has run on a tracker that enforces the limit on everyone and
\* has counted requests
C14_Witness ==
    \E t \in Threads :
        /\ pc[t] = "ac_ret"
        /\ client[t] = NoId
        /\ clients = {}
        /\ requestCounts # EmptyCounts

\* C15: the table never has an entry for client 0, whatever addRequest calls
\* are made, addRequest(0) included.
C15_SentinelNeverCounted == NoId \notin DOMAIN requestCounts

Denials(c) == {i \in 1..Len(answers[c]) : answers[c][i].wait > 0}
\* The second the denial i of client c said to retry at
RetryAt(c, i) == answers[c][i].at + answers[c][i].wait
\* No call of c after its denial i was made at the retry second or later
FirstSince(c, i) ==
    \A j \in (i + 1)..Len(answers[c]) : answers[c][j].at < RetryAt(c, i)

\* C17 as stated: with a single caller, once client c was denied at second e
\* with wait w, every request of c at a second in [e, e + w) is denied, and
\* the first request of c at second e + w or later is allowed.
C17_WaitSoundAndTightAnyRequest ==
    \A t \in Threads :
        Answered(t) =>
            \A i \in Denials(client[t]) :
                /\ secSinceStart[t] < RetryAt(client[t], i) => ret[t] > 0
                /\ (/\ secSinceStart[t] >= RetryAt(client[t], i)
                    /\ FirstSince(client[t], i)) => ret[t] = 0

\* C17 amended: the same for the requests of c made while c is subject to
\* the limit (the tracked set is empty or holds c); a request of c made after
\* other clients were registered for tracking is bypassed and answered 0
\* also before second e + w.
C17_WaitSoundAndTight ==
    \A t \in Threads :
        Answered(t) =>
            \A i \in Denials(client[t]) :
                /\ (/\ secSinceStart[t] < RetryAt(client[t], i)
                    /\ Enforced(client[t])) => ret[t] > 0
                /\ (/\ secSinceStart[t] >= RetryAt(client[t], i)
                    /\ FirstSince(client[t], i)) => ret[t] = 0

\* An enforced request exactly at the retry second of an earlier denial
C17_Witness ==
    \E t \in Threads :
        /\ Answered(t)
        /\ Enforced(client[t])
        /\ branch[t] # "bypass"
        /\ ret[t] = 0
        /\ \E i \in Denials(client[t]) :
               /\ secSinceStart[t] = RetryAt(client[t], i)
               /\ FirstSince(client[t], i)
               /\ answers[client[t]][i].wait < rateLimit.period

\* C18: a denied addRequest call (answer > 0) changes nothing: the caller's
\* count stays at num, and the window start, the other clients' counts, the
\* keys of the table and the tracked set are as before.
C18_DeniedChangesNothing ==
    [][\A t \in Threads :
          (BodyStep(t) /\ ret'[t] > 0) =>
              /\ client[t] \in DOMAIN requestCounts
              /\ requestCounts[client[t]] = rateLimit.num
              /\ requestCounts' = requestCounts
              /\ DOMAIN requestCounts' = DOMAIN requestCounts
              /\ currentWindowStart' = currentWindowStart
              /\ clients' = clients]_vars

\* A tracked client denied while another client has a count in the table
C18_Witness ==
    \E t \in Threads :
        /\ Answered(t)
        /\ ret[t] > 0
        /\ client[t] \in clients
        /\ \E d \in DOMAIN requestCounts : d # client[t]

\* C19: once an addRequest call that was not bypassed has run, the window
\* start is a non-negative multiple of the period (not the second of the
\* request that opened the window), and right after each such call the
\* caller's reading e satisfies windowStart <= e < windowStart + period.
C19_WindowAligned ==
    /\ SumClients(requests, ClientIds) >= 1 =>
           /\ currentWindowStart >= 0
           /\ currentWindowStart % rateLimit.period = 0
    /\ \A t \in Threads :
           (Answered(t) /\ branch[t] # "bypass") =>
               /\ currentWindowStart <= secSinceStart[t]
               /\ secSinceStart[t] < currentWindowStart + rateLimit.period

\* A window after the first opened by a request inside it, not at its start
C19_Witness ==
    \E t \in Threads :
        /\ Answered(t)
        /\ branch[t] = "rollover"
        /\ currentWindowStart > 0
        /\ secSinceStart[t] > currentWindowStart

\* C20: with a valid configuration (num >= 1), in every state and under
\* every interleaving each entry of the table has a count in 1..num: the
\* default-inserting lookup leaves no zero entry and no count exceeds num; so
\* size() is the number of clients with a nonzero count.
C20_CountsBetweenOneAndNum ==
    LET nonzero == {c \in ClientIds :
                       c \in DOMAIN requestCounts /\ requestCounts[c] # 0}
    IN  /\ \A c \in DOMAIN requestCounts :
               1 <= requestCounts[c] /\ requestCounts[c] <= rateLimit.num
        /\ SizeOf(requestCounts) = Cardinality(nonzero)
        /\ \A t \in Threads :
               pc[t] = "sz_ret" => ret[t] = Cardinality(nonzero)

\* size() answers 2 for a table with a count at num = 2 and a count of 1
C20_Witness ==
    \E t \in Threads :
        /\ pc[t] = "sz_ret"
        /\ ret[t] = 2
        /\ rateLimit.num = 2
        /\ \E c, d \in DOMAIN requestCounts :
               requestCounts[c] = 2 /\ requestCounts[d] = 1

\* C21: with a monotonic clock the window start never decreases, under every
\* interleaving of addRequest calls: a rollover sets it to a value not below
\* the one it had, so a closed window is never reopened.
C21_WindowStartNeverDecreases ==
    [][currentWindowStart' >= currentWindowStart]_vars

\* C11: on the fixture's tracker {num = 2, period = 10}, after exactly two
\* requests of one client, both at second 9 and both allowed, the client's
\* request at second 12 is denied and addRequest returns 2.
C11_BoundaryRequestDenied ==
    \A t \in Threads :
        (/\ Answered(t)
         /\ branch[t] # "bypass"
         /\ rateLimit = [num |-> 2, period |-> 10]
         /\ secSinceStart[t] = 12
         /\ answers[client[t]] = <<[at |-> 9, wait |-> 0], [at |-> 9, wait |-> 0]>>
         /\ requests[client[t]][0] = 2
         /\ requests[client[t]][1] = 1)
        => /\ branch[t] = "deny"
           /\ ret[t] = 2

\* C22: createRequestHandler for the URI "/" never calls addRequest with the
\* id 0: when getClientId yields 0 it answers service unavailable (503) and
\* the tracker is not touched; otherwise it calls addRequest exactly once,
\* with the id of the peer address, and answers too many requests (429) iff
\* the wait returned is > 0 and the page (200) iff it is 0.
C22_HandlerNeverPassesZero ==
    /\ NoId \notin DOMAIN requestCounts
    /\ \A k \in Windows : requests[NoId][k] = 0
    /\ SumClients(requests, ClientIds)
           = served + Cardinality({t \in Threads : pc[t] = "ar_ret"})
    /\ \A t \in Threads :
           LET h == handler[t]
               zero == AddressIds[h.addr] = NoId
           IN  /\ pc[t] # "idle" =>
                      /\ h.response = "pending"
                      /\ client[t] # NoId
                      /\ client[t] = AddressIds[h.addr]
               /\ h # NoRequest =>
                      /\ h.response = "503" <=> (h.uri = "/" /\ zero)
                      /\ h.response = "null" <=> h.uri # "/"
                      /\ h.response \in {"429", "200"} =>
                             /\ h.uri = "/" /\ ~zero
                             /\ h.response = "429" <=> h.wait > 0
                             /\ h.response = "200" <=> h.wait = 0

\* One thread answers 503 to an IPv6 peer while the other answers 429 to a
\* peer whose request the tracker denied
C22_Witness ==
    \E t, u \in Threads :
        /\ handler[t].response = "503"
        /\ handler[t].addr = <<"[", ":", ":", "1", "]", ":", "8", "0">>
        /\ handler[u].response = "429"
        /\ handler[u].wait > 0
        /\ handler[u].id = IdA
        /\ requestCounts = (IdA :> rateLimit.num)

(***************************************************************************)
(* Properties of getClientId.                                              *)
(***************************************************************************)
\* The text handed to getClientId is a dotted quad, a port at most after it
PlainAddress == parts.given /\ parts.octets # <<>> /\ parts.pre = <<>>

\* C8: getClientId returns 0 for every text without a dotted quad of four
\* 1-3 digit groups, and for every dotted quad one of whose groups is above
\* 255: a group is checked to fit a byte, never truncated.
C8_MalformedYieldsZero ==
    /\ (parts.given /\ parts.octets = <<>>) => clientId = NoId
    /\ (PlainAddress /\ \E i \in 1..4 : parts.octets[i] > 255)
       => clientId = NoId

\* C9: for a dotted quad a.b.c.d with a, b, c, d in 0..255 getClientId
\* returns a*2^24 + b*2^16 + c*2^8 + d, the most significant octet first and
\* within 32 bits; the id determines the quad, and is 0 only for 0.0.0.0.
C9_PackedMostSignificantFirst ==
    (PlainAddress /\ \A i \in 1..4 : parts.octets[i] <= 255) =>
        LET q == parts.octets
        IN  /\ clientId = <<q[1] * 256 + q[2], q[3] * 256 + q[4]>>
            /\ clientId[1] < Half /\ clientId[2] < Half
            /\ q = <<clientId[1] \div 256, clientId[1] % 256,
                     clientId[2] \div 256, clientId[2] % 256>>
            /\ (clientId = NoId) <=> (q = <<0, 0, 0, 0>>)

C9_Witness ==
    /\ PlainAddress
    /\ parts.octets = <<255, 0, 127, 1>>
    /\ parts.suf # <<>>
    /\ clientId = <<65280, 32513>>

====
